---- MODULE Spec2Model ----
(***************************************************************************)
(* phasutils (src/src/main.rs): an overlay that shows a stopwatch and a   *)
(* ghost catalog.  Two threads: main (startup, then the render loop) and  *)
(* the key-listener thread whose callback mutates the shared stopwatch    *)
(* (behind one RwLock) and the atomics index,                             *)
(* ghost_information_should_update and window_should_close.               *)
(*                                                                         *)
(* Time is counted in clock ticks; a second is TicksPerSec ticks.         *)
(***************************************************************************)
EXTENDS Integers, Sequences, FiniteSets, TLC

\* ---------------------------------------------------------------- bounds
MaxTime == 1          \* Spec: the clock stops advancing at MaxTime ticks
WatchHorizon == 4     \* SpecWatch: the clock stops advancing at WatchHorizon ticks
TimerHorizon == 61    \* SpecTimer: the clock stops advancing at TimerHorizon seconds
TicksPerSec == 2      \* clock resolution: ticks in one second
MaxGhosts == 2        \* largest ghost list a config file supplies
MaxIndex == 3         \* empty list: X is not pressed again once index = MaxIndex

\* ------------------------------------------------------ program constants
SecsPerMin == 60      \* main.rs:289-290, as_secs() / 60 and as_secs() % 60

VARIABLES
    now,            \* the monotonic clock (time::Instant::now()), in ticks
    mpc,            \* position of the main thread
    lpc,            \* position of the key-listener thread / callback
    nghosts,        \* config.ghosts.len()
    sw_elapsed,     \* StopWatch.elapsed
    sw_start,       \* StopWatch.start
    sw_instant,     \* StopWatch.instant
    lock,           \* the RwLock around the stopwatch: "free", "read", "write", "poisoned"
    index,          \* AtomicUsize index
    ghost_information_should_update,  \* AtomicBool, set by Z and X
    window_should_close,              \* AtomicBool, set by key 0
    r_idx,          \* render loop: the index loaded for the record lookup
    r_min,          \* render loop: minutes obtained from the first elapsed()
    text_ghost,     \* text_ghost_name: [num |-> printed number, rec |-> record]
    text_timer,     \* text_timer: [min |-> digits, sec |-> digits]
    tip_highlight,  \* text_tips[0] is drawn in TEXT_COLOR_HIGHLIGHT
    hist            \* history of the run, read by the properties only

vars == << now, mpc, lpc, nghosts, sw_elapsed, sw_start, sw_instant, lock,
           index, ghost_information_should_update, window_should_close, r_idx, r_min, text_ghost,
           text_timer, tip_highlight, hist >>

\* ------------------------------------------------------- pure functions

\* time::Instant::elapsed(): the time since the instant was taken.
instant_elapsed(inst, t) == t - inst

elapsed_ignores_flag(e, s, inst, t) == e + instant_elapsed(inst, t)

\* StopWatch::elapsed() evaluated when the clock shows t.
elapsed(e, s, inst, t) == e + (IF s THEN instant_elapsed(inst, t) ELSE 0)

\* Duration::as_secs(): whole seconds, the fraction dropped.
as_secs(d) == d \div TicksPerSec

\* The decimal digits of n, most significant first.
RECURSIVE Digits(_)
Digits(n) == IF n < 10 THEN << n >> ELSE Append(Digits(n \div 10), n % 10)

\* format!("{:02}", n): at least two digits, padded with a zero.
Pad2(n) == IF n < 10 THEN << 0, n >> ELSE Digits(n)

\* format!("{:02}:{:02}", d1.as_secs() / 60, d2.as_secs() % 60) where d1 and
\* d2 are the results of the first and of the second call of elapsed().
timer_string(mins, d2) ==
    [min |-> Pad2(mins), sec |-> Pad2(as_secs(d2) % SecsPerMin)]

timer_minutes(d1) == as_secs(d1) \div SecsPerMin

\* usize arithmetic of a release build: wrapping, modulo 2^64.  A usize is
\* written as its residue of least absolute value, so 2^64 - 1 (usize::MAX)
\* is -1, 2^64 - 2 is -2, and so on.  On residues the wrapping operations
\* are plain + and -, and as long as the values stay within 2^63 of zero,
\* which the bounds of the model ensure, two residues are equal exactly when
\* the usize values are.
wrapping_sub(a, b) == a - b
wrapping_add(a, b) == a + b

\* ghosts[i] on a list of n entries: the bounds check compares unsigned
\* values; a negative residue is a value of at least 2^63.
in_bounds(i, n) == 0 <= i /\ i < n

\* The current value of StopWatch::elapsed().
Elapsed == elapsed(sw_elapsed, sw_start, sw_instant, now)

StopWatchState == [elapsed |-> sw_elapsed, start |-> sw_start, instant |-> sw_instant]

Keys == {"Num0", "Num1", "Num2", "Num3", "KeyZ", "KeyX", "Other"}

\* The main thread has ended, and the process with it.
Terminal == {"done", "error", "panicked"}
Alive == mpc \notin Terminal

\* The callback is between its write() and the release of the guard.
InCallback == lpc \notin {"unspawned", "listen", "idle", "dead", "panicked"}

\* ------------------------------------------------------------------ Init

\* graphics::Text::new("00:00", ..): the timer text before the first frame.
ZeroText == [min |-> << 0, 0 >>, sec |-> << 0, 0 >>]

HistInit ==
    [failed |-> "none",       \* the startup call that failed, if any
     key0 |-> FALSE,          \* key 0 has been pressed
     key |-> "none",          \* the key the callback is handling
     idx |-> 0,               \* the index when that key was pressed
     committed |-> [elapsed |-> 0, start |-> FALSE, instant |-> 0],
                              \* the stopwatch after the last completed callback
     pat |-> "none",          \* "started" once start() has taken its instant,
                              \* "stopped" once the stop() after it has added
     acc |-> 0,               \* elapsed() just before that start()
     delta |-> 0,             \* ticks of the clock from that start() to that stop()
     rest |-> 0,              \* ticks of the clock since that stop()
     zero |-> FALSE,          \* key 3 was handled while stopped, no start() since
     fromzero |-> FALSE,      \* the last start() came after such a key 3
     lo |-> 0,                \* elapsed() at the frame's first call of it
     hi |-> 0]                \* elapsed() at the frame's second call of it

Init ==
    /\ now = 0
    /\ mpc = "config"
    /\ lpc = "unspawned"
    /\ nghosts \in 0..MaxGhosts
    /\ sw_elapsed = 0
    /\ sw_start = FALSE
    /\ sw_instant = 0
    /\ lock = "free"
    /\ index = 0
    /\ ghost_information_should_update = TRUE
    /\ window_should_close = FALSE
    /\ r_idx = 0
    /\ r_min = 0
    /\ text_ghost = [num |-> -1, rec |-> -1]
    /\ text_timer = ZeroText
    /\ tip_highlight = FALSE
    /\ hist = HistInit

swvars == << sw_elapsed, sw_start, sw_instant >>
atomics == << index, ghost_information_should_update, window_should_close >>
rvars == << r_idx, r_min, text_ghost, text_timer, tip_highlight >>

\* ----------------------------------------------------------------- clock

\* The clock advances by d ticks, up to the model's horizon.
Tick(d, horizon) ==
    /\ Alive
    /\ now + d <= horizon
    /\ now' = now + d
    /\ hist' = CASE hist.pat = "started" -> [hist EXCEPT !.delta = @ + d]
                 [] hist.pat = "stopped" -> [hist EXCEPT !.rest = @ + d]
                 [] OTHER -> hist
    /\ UNCHANGED << mpc, lpc, nghosts, swvars, lock, atomics, rvars >>

\* --------------------------------------------------- main thread: startup

\* A startup call that failed is remembered for the properties.
Failed(call, ok) == IF ok THEN hist ELSE [hist EXCEPT !.failed = call]

MainOnly == << now, lpc, nghosts, swvars, lock, atomics, rvars >>

\* fs::read_to_string("./config.json")? and serde_json::from_str(..)?: an
\* error of either returns Err from main.
LoadConfig(ok) ==
    /\ mpc = "config"
    /\ mpc' = IF ok THEN "get_long" ELSE "error"
    /\ hist' = Failed("config", ok)
    /\ UNCHANGED MainOnly

\* GetWindowLongW(h_wnd, GWL_EXSTYLE): its result (0 on failure) is used as
\* the style to extend; the code does not test it.
GetWindowLong(ok) ==
    /\ mpc = "get_long"
    /\ mpc' = "set_long"
    /\ hist' = Failed("GetWindowLongW", ok)
    /\ UNCHANGED MainOnly

\* SetWindowLongW(..): the returned value (0 on failure) is discarded.
SetWindowLong(ok) ==
    /\ mpc = "set_long"
    /\ mpc' = "set_layered"
    /\ hist' = Failed("SetWindowLongW", ok)
    /\ UNCHANGED MainOnly

\* SetLayeredWindowAttributes(..)?: an error returns Err from main.
SetLayered(ok) ==
    /\ mpc = "set_layered"
    /\ mpc' = IF ok THEN "font" ELSE "error"
    /\ hist' = Failed("SetLayeredWindowAttributes", ok)
    /\ UNCHANGED MainOnly

\* graphics::Font::from_file("./assets/font.ttf").unwrap(): None panics.
LoadFont(ok) ==
    /\ mpc = "font"
    /\ mpc' = IF ok THEN "spawn" ELSE "panicked"
    /\ hist' = Failed("font", ok)
    /\ UNCHANGED MainOnly

\* StopWatch::new(), the atomics, and thread::spawn of the key listener.
Spawn ==
    /\ mpc = "spawn"
    /\ mpc' = "loop"
    /\ lpc' = "listen"
    /\ sw_elapsed' = 0
    /\ sw_start' = FALSE
    /\ sw_instant' = now
    /\ hist' = [hist EXCEPT !.committed = [elapsed |-> 0, start |-> FALSE, instant |-> now]]
    /\ UNCHANGED << now, nghosts, lock, atomics, rvars >>

\* ------------------------------------------ key-listener thread: callback

\* rdev::listen(callback): either the hook is installed and events arrive,
\* or listen returns an error, which is printed, and the thread ends.
Listen(ok) ==
    /\ Alive
    /\ lpc = "listen"
    /\ lpc' = IF ok THEN "idle" ELSE "dead"
    /\ UNCHANGED << now, mpc, nghosts, swvars, lock, atomics, rvars, hist >>

key_arm_shifted(k) ==
    CASE k = "Num1" -> "start"
      [] k = "Num2" -> "stop"
      [] k = "Num3" -> "stop"
      [] k = "Num0" -> "close"
      [] k = "KeyZ" -> "z_load"
      [] k = "KeyX" -> "x_load"
      [] OTHER -> "unlock"

\* match key { .. }: the arm of the callback a key selects.
key_arm(k) ==
    CASE k = "Num1" -> "start"
      [] k = "Num2" -> "stop"
      [] k = "Num3" -> "reset"
      [] k = "Num0" -> "close"
      [] k = "KeyZ" -> "z_load"
      [] k = "KeyX" -> "x_load"
      [] OTHER -> "unlock"

\* RwLock::write() returns once no reader and no writer holds the lock.
write_available(l) == l = "free"

\* A KeyPress event: the callback takes the write lock, then matches the key.
\* With an empty list a release build lets every X raise the index by one,
\* without end; the model stops pressing X there once index = MaxIndex.
KeyPress(k) ==
    /\ Alive
    /\ lpc = "idle"
    /\ write_available(lock)
    /\ (nghosts = 0 /\ k = "KeyX") => index < MaxIndex
    /\ lock' = "write"
    /\ lpc' = key_arm(k)
    /\ hist' = [hist EXCEPT !.key = k, !.idx = index, !.key0 = @ \/ k = "Num0"]
    /\ UNCHANGED << now, mpc, nghosts, swvars, atomics, rvars >>

ListenerOnly == << now, mpc, nghosts, lock, rvars >>

start_guard_always(s) == TRUE

\* StopWatch::start: if !self.start { self.start = true; .. }
start_guard(s) == ~s

StartFlag ==
    /\ Alive
    /\ lpc = "start"
    /\ IF start_guard(sw_start)
         THEN /\ sw_start' = TRUE
              /\ lpc' = "start_instant"
              /\ hist' = [hist EXCEPT !.pat = "none", !.acc = 0, !.delta = 0, !.rest = 0,
                                      !.zero = FALSE, !.fromzero = hist.zero]
         ELSE /\ sw_start' = sw_start
              /\ lpc' = "unlock"
              /\ hist' = hist
    /\ UNCHANGED << ListenerOnly, sw_elapsed, sw_instant, atomics >>

\* .. self.instant = time::Instant::now();
StartInstant ==
    /\ Alive
    /\ lpc = "start_instant"
    /\ sw_instant' = now
    /\ lpc' = "unlock"
    /\ hist' = [hist EXCEPT !.pat = "started", !.acc = sw_elapsed, !.delta = 0]
    /\ UNCHANGED << ListenerOnly, sw_elapsed, sw_start, atomics >>

\* StopWatch::stop: if self.start { self.start = false; .. }
stop_guard(s) == s

StopFlag ==
    /\ Alive
    /\ lpc = "stop"
    /\ IF stop_guard(sw_start)
         THEN sw_start' = FALSE /\ lpc' = "stop_add"
         ELSE sw_start' = sw_start /\ lpc' = "unlock"
    /\ UNCHANGED << ListenerOnly, sw_elapsed, sw_instant, atomics, hist >>

\* .. self.elapsed += self.instant.elapsed();
stop_elapsed_overwrite(e, inst, t) == instant_elapsed(inst, t)

stop_elapsed(e, inst, t) == e + instant_elapsed(inst, t)

StopAdd ==
    /\ Alive
    /\ lpc = "stop_add"
    /\ sw_elapsed' = stop_elapsed(sw_elapsed, sw_instant, now)
    /\ lpc' = "unlock"
    /\ hist' = IF hist.pat = "started" THEN [hist EXCEPT !.pat = "stopped"] ELSE hist
    /\ UNCHANGED << ListenerOnly, sw_start, sw_instant, atomics >>

\* StopWatch::reset: if !self.start { self.elapsed = Duration::new(0, 0); .. }
reset_guard_always(s) == TRUE

reset_guard(s) == ~s

ResetElapsed ==
    /\ Alive
    /\ lpc = "reset"
    /\ IF reset_guard(sw_start)
         THEN /\ sw_elapsed' = 0
              /\ lpc' = "reset_instant"
              /\ hist' = [hist EXCEPT !.pat = "none", !.acc = 0, !.delta = 0, !.rest = 0,
                                      !.fromzero = FALSE]
         ELSE /\ sw_elapsed' = sw_elapsed
              /\ lpc' = "unlock"
              /\ hist' = hist
    /\ UNCHANGED << ListenerOnly, sw_start, sw_instant, atomics >>

\* .. self.instant = time::Instant::now();
ResetInstant ==
    /\ Alive
    /\ lpc = "reset_instant"
    /\ sw_instant' = now
    /\ lpc' = "unlock"
    /\ UNCHANGED << ListenerOnly, sw_elapsed, sw_start, atomics, hist >>

\* Num0: window_should_close_clone.store(true, Relaxed)
StoreClose ==
    /\ Alive
    /\ lpc = "close"
    /\ window_should_close' = TRUE
    /\ lpc' = "unlock"
    /\ UNCHANGED << ListenerOnly, swvars, index, ghost_information_should_update, hist >>

z_guard_always(i) == TRUE

\* KeyZ: if index_clone.load(Relaxed) != 0 { .. }
z_guard(i) == i # 0

ZLoad ==
    /\ Alive
    /\ lpc = "z_load"
    /\ lpc' = IF z_guard(index) THEN "z_sub" ELSE "unlock"
    /\ UNCHANGED << ListenerOnly, swvars, atomics, hist >>

\* .. index_clone.fetch_sub(1, Relaxed); (fetch_sub wraps)
ZSub ==
    /\ Alive
    /\ lpc = "z_sub"
    /\ index' = wrapping_sub(index, 1)
    /\ lpc' = "set_flag"
    /\ UNCHANGED << ListenerOnly, swvars, ghost_information_should_update, window_should_close, hist >>

\* KeyX: if index_clone.load(Relaxed) != config.ghosts.len() - 1 { .. }
x_guard(i, last) == i # last

\* ghosts.len() - 1 on usize: with an empty list a build with overflow checks
\* panics in the callback, a build without them wraps.  The panic either
\* aborts the process (it cannot unwind out of the hook) or ends the thread
\* with the write guard dropped during unwinding, which poisons the lock.
XLoad ==
    /\ Alive
    /\ lpc = "x_load"
    /\ \/ /\ lpc' = IF x_guard(index, wrapping_sub(nghosts, 1))
                      THEN "x_add" ELSE "unlock"
          /\ UNCHANGED << mpc, lock >>
       \/ /\ nghosts = 0
          /\ \/ mpc' = "panicked" /\ UNCHANGED << lpc, lock >>
             \/ lpc' = "panicked" /\ lock' = "poisoned" /\ UNCHANGED mpc
    /\ UNCHANGED << now, nghosts, rvars, swvars, atomics, hist >>

\* .. index_clone.fetch_add(1, Relaxed); (fetch_add wraps)
XAdd ==
    /\ Alive
    /\ lpc = "x_add"
    /\ index' = wrapping_add(index, 1)
    /\ lpc' = "set_flag"
    /\ UNCHANGED << ListenerOnly, swvars, ghost_information_should_update, window_should_close, hist >>

\* .. ghost_information_should_update_clone.store(true, Relaxed);
SetFlag ==
    /\ Alive
    /\ lpc = "set_flag"
    /\ ghost_information_should_update' = TRUE
    /\ lpc' = "unlock"
    /\ UNCHANGED << ListenerOnly, swvars, index, window_should_close, hist >>

\* The end of the callback: the write guard is dropped.
Unlock ==
    /\ Alive
    /\ lpc = "unlock"
    /\ lock' = "free"
    /\ lpc' = "idle"
    /\ hist' = [hist EXCEPT !.committed = StopWatchState, !.key = "none", !.idx = 0,
                            !.zero = @ \/ (hist.key = "Num3" /\ ~hist.committed.start)]
    /\ UNCHANGED << now, mpc, nghosts, swvars, atomics, rvars >>

\* ---------------------------------------------- main thread: render loop

RenderOnly == << now, lpc, nghosts, swvars >>

loop_cond_forever(close) == TRUE

\* while !window_should_close.load(Relaxed) { .. }
loop_cond(close) == ~close

\* The loop test.  When it fails the windows are closed and main returns
\* Ok(()).  (The window events polled next change no state of the model: a
\* Closed event closes the window and the loop goes on.)
LoopTest ==
    /\ mpc = "loop"
    /\ mpc' = IF loop_cond(window_should_close) THEN "flag_test" ELSE "done"
    /\ UNCHANGED << RenderOnly, lock, atomics, rvars, hist >>

\* if ghost_information_should_update.load(Relaxed) { .. }
FlagTest ==
    /\ mpc = "flag_test"
    /\ mpc' = IF ghost_information_should_update THEN "lookup" ELSE "timer_lock"
    /\ UNCHANGED << RenderOnly, lock, atomics, rvars, hist >>

\* &config.read().unwrap().ghosts[index.load(Relaxed)]: the first load of
\* the index; an index outside the list panics.
Lookup ==
    /\ mpc = "lookup"
    /\ r_idx' = index
    /\ mpc' = IF in_bounds(index, nghosts) THEN "format" ELSE "panicked"
    /\ UNCHANGED << RenderOnly, lock, atomics, r_min, text_ghost, text_timer,
                    tip_highlight, hist >>

\* text_ghost_name.set_string(&format!("{}. {} ({}) {}",
\*     index.load(Relaxed), name, id, speed)): the second load of the index
\* gives the number, the record looked up before gives name, id and speed.
\* (The word wrap of the features text that follows keeps no state here.)
FormatGhost ==
    /\ mpc = "format"
    /\ text_ghost' = [num |-> index, rec |-> r_idx]
    /\ mpc' = "flag_clear"
    /\ UNCHANGED << RenderOnly, lock, atomics, r_idx, r_min, text_timer,
                    tip_highlight, hist >>

\* ghost_information_should_update.store(false, Relaxed), and the end of the
\* block: the borrowed record goes out of scope.
FlagClear ==
    /\ mpc = "flag_clear"
    /\ ghost_information_should_update' = FALSE
    /\ r_idx' = 0
    /\ mpc' = "timer_lock"
    /\ UNCHANGED << RenderOnly, lock, index, window_should_close, r_min, text_ghost,
                    text_timer, tip_highlight, hist >>

read_available_always(l) == TRUE

\* RwLock::read() returns once no writer holds the lock.
read_available(l) == l = "free"

\* let stopwatch = stopwatch.read().unwrap(): blocks while the callback
\* holds the write lock; a poisoned lock makes unwrap() panic.
TimerLock ==
    /\ mpc = "timer_lock"
    /\ \/ /\ read_available(lock)
          /\ lock' = "read"
          /\ mpc' = "elapsed1"
       \/ /\ lock = "poisoned"
          /\ lock' = lock
          /\ mpc' = "panicked"
    /\ UNCHANGED << RenderOnly, atomics, rvars, hist >>

\* stopwatch.elapsed().as_secs() / 60: the first call of elapsed().
Elapsed1 ==
    /\ mpc = "elapsed1"
    /\ r_min' = timer_minutes(Elapsed)
    /\ mpc' = "elapsed2"
    /\ hist' = [hist EXCEPT !.lo = Elapsed]
    /\ UNCHANGED << RenderOnly, lock, atomics, r_idx, text_ghost, text_timer,
                    tip_highlight >>

\* stopwatch.elapsed().as_secs() % 60: the second call of elapsed(), and
\* text_timer.set_string of the formatted text.
Elapsed2 ==
    /\ mpc = "elapsed2"
    /\ text_timer' = timer_string(r_min, Elapsed)
    /\ mpc' = "tip"
    /\ hist' = [hist EXCEPT !.hi = Elapsed]
    /\ UNCHANGED << RenderOnly, lock, atomics, r_idx, r_min, text_ghost,
                    tip_highlight >>

\* if stopwatch.start { highlight } else { normal colour }, and the end of
\* the block: the read guard is dropped, the temporaries are gone.
TipColor ==
    /\ mpc = "tip"
    /\ tip_highlight' = sw_start
    /\ lock' = "free"
    /\ r_min' = 0
    /\ hist' = [hist EXCEPT !.lo = 0, !.hi = 0]
    /\ mpc' = "set_pos"
    /\ UNCHANGED << RenderOnly, atomics, r_idx, text_ghost, text_timer >>

\* The frame is drawn; SetWindowPos(..)? returns Err from main on failure;
\* window.display() ends the iteration.
SetWindowPos(ok) ==
    /\ mpc = "set_pos"
    /\ mpc' = IF ok THEN "loop" ELSE "error"
    /\ UNCHANGED << RenderOnly, lock, atomics, rvars, hist >>

\* ------------------------------------------------------- specifications

Startup ==
    \/ \E ok \in BOOLEAN : LoadConfig(ok)
    \/ \E ok \in BOOLEAN : GetWindowLong(ok)
    \/ \E ok \in BOOLEAN : SetWindowLong(ok)
    \/ \E ok \in BOOLEAN : SetLayered(ok)
    \/ \E ok \in BOOLEAN : LoadFont(ok)
    \/ Spawn

Render ==
    \/ LoopTest
    \/ FlagTest
    \/ Lookup
    \/ FormatGhost
    \/ FlagClear
    \/ TimerLock
    \/ Elapsed1
    \/ Elapsed2
    \/ TipColor
    \/ \E ok \in BOOLEAN : SetWindowPos(ok)

Callback ==
    \/ StartFlag
    \/ StartInstant
    \/ StopFlag
    \/ StopAdd
    \/ ResetElapsed
    \/ ResetInstant
    \/ StoreClose
    \/ ZLoad
    \/ ZSub
    \/ XLoad
    \/ XAdd
    \/ SetFlag
    \/ Unlock

Next ==
    \/ Startup
    \/ Render
    \/ \E ok \in BOOLEAN : Listen(ok)
    \/ \E k \in Keys : KeyPress(k)
    \/ Callback
    \/ Tick(1, MaxTime)

\* The whole program: every key, every outcome of every fallible call, every
\* ghost list of up to MaxGhosts records.
Spec == Init /\ [][Next]_vars

\* The whole program with the clock standing still, under the scheduling the
\* threads get: a step of the main thread that stays possible is taken, and
\* so is a step of the callback.  Key presses come with gaps in which the
\* lock is free, so a render loop that waits for the read lock gets it.
NextNoClock ==
    \/ Startup
    \/ Render
    \/ \E ok \in BOOLEAN : Listen(ok)
    \/ \E k \in Keys : KeyPress(k)
    \/ Callback

FairSpec ==
    /\ Init
    /\ [][NextNoClock]_vars
    /\ WF_vars(Startup \/ Render)
    /\ WF_vars(Callback)
    /\ SF_vars(TimerLock)

\* The stopwatch under a longer clock: the timer keys 1, 2 and 3 on a program
\* with one ghost record whose two unchecked window calls succeed.
StartupChecked ==
    \/ \E ok \in BOOLEAN : LoadConfig(ok)
    \/ GetWindowLong(TRUE)
    \/ SetWindowLong(TRUE)
    \/ \E ok \in BOOLEAN : SetLayered(ok)
    \/ \E ok \in BOOLEAN : LoadFont(ok)
    \/ Spawn

TimerKeys == {"Num1", "Num2", "Num3"}

CallbackTimer ==
    \/ StartFlag
    \/ StartInstant
    \/ StopFlag
    \/ StopAdd
    \/ ResetElapsed
    \/ ResetInstant
    \/ Unlock

NextWatch ==
    \/ StartupChecked
    \/ Render
    \/ \E ok \in BOOLEAN : Listen(ok)
    \/ \E k \in TimerKeys : KeyPress(k)
    \/ CallbackTimer
    \/ Tick(1, WatchHorizon)

InitOneGhost == Init /\ nghosts = 1

SpecWatch == InitOneGhost /\ [][NextWatch]_vars

\* The stopwatch started with key 1 and left running into its second minute:
\* the clock advances by one second or by 59 seconds at a time.
TimerSteps == {TicksPerSec, (SecsPerMin - 1) * TicksPerSec}

NextTimer ==
    \/ StartupChecked
    \/ Render
    \/ \E ok \in BOOLEAN : Listen(ok)
    \/ KeyPress("Num1")
    \/ StartFlag
    \/ StartInstant
    \/ Unlock
    \/ \E d \in TimerSteps : Tick(d, TimerHorizon * TicksPerSec)

SpecTimer == InitOneGhost /\ [][NextTimer]_vars

\* ================================================================ claims

\* C1: on a stopped stopwatch, start() at t1 followed by stop() at t2 makes
\* elapsed() the duration accumulated before the start plus the ticks the
\* clock made from t1 to t2 (for a fresh stopwatch just those ticks), and the
\* value stays the same however long the stopwatch then rests.
C1_StartStopMeasuresWallTime ==
    hist.pat = "stopped" => (~sw_start /\ Elapsed = hist.acc + hist.delta)

\* A second interval was measured on top of a first, and the clock went on.
C1_Witness ==
    /\ hist.pat = "stopped"
    /\ hist.acc > 0
    /\ hist.delta > 0
    /\ hist.rest > 0
    /\ lpc = "idle"

\* C2: every step taken while a reset() that found the stopwatch running is
\* being handled leaves the running flag, the accumulated duration and the
\* reference instant as they were.
C2_ResetWhileRunningIsNoop ==
    [][((lpc \in {"reset", "reset_instant"} \/ hist.key = "Num3")
            /\ hist.committed.start)
          => swvars' = swvars]_vars

\* The callback of key 3 has run to its end on a running stopwatch that had
\* already measured time.
C2_Witness ==
    /\ hist.key = "Num3"
    /\ lpc = "unlock"
    /\ hist.committed.start
    /\ sw_start
    /\ Elapsed > 0

\* C3: when its callback ends, key 1 has left the stopwatch running and key 2
\* stopped; key 3 handled while stopped leaves elapsed() at 0 (shown as 00:00)
\* until the next start, and the start/stop after it measures just the new
\* interval.
C3_KeysStartStopReset ==
    /\ (lpc = "unlock" /\ hist.key = "Num1") => sw_start
    /\ (lpc = "unlock" /\ hist.key = "Num2") => ~sw_start
    /\ hist.zero =>
          /\ Elapsed = 0
          /\ timer_string(timer_minutes(Elapsed), Elapsed) = ZeroText
    /\ (hist.pat = "stopped" /\ hist.fromzero) => Elapsed = hist.delta

\* Time had been measured, key 3 set it to zero, and a new interval was
\* measured after it.
C3_Witness ==
    /\ hist.pat = "stopped"
    /\ hist.fromzero
    /\ hist.delta > 0
    /\ now > hist.delta
    /\ hist.committed.elapsed = hist.delta
    /\ lpc = "idle"

\* C4: the shutdown flag, once set, stays set; once key 0 has been pressed
\* the main thread ends (the render loop is left); and the render loop is
\* left through its loop test only after key 0 has been pressed.
C4_Key0Quits ==
    /\ [][window_should_close => window_should_close']_vars
    /\ (hist.key0 ~> mpc \in Terminal)
    /\ [](mpc = "done" => (hist.key0 /\ window_should_close))

\* Key 0 was pressed while the stopwatch was running and the loop was left.
C4_Witness ==
    /\ mpc = "done"
    /\ hist.key0
    /\ sw_start
    /\ index > 0

\* C5: with n >= 1 ghost records the index is always one of 0..n-1; when
\* its callback ends, Z has moved the index to the previous record and X to
\* the next one, each staying put at its end of the list, and no other key
\* has moved it.
C5_IndexStaysInList ==
    nghosts >= 1 =>
        /\ index \in 0..(nghosts - 1)
        /\ lpc = "unlock" =>
              index = CASE hist.key = "KeyZ" ->
                             IF hist.idx = 0 THEN 0 ELSE hist.idx - 1
                        [] hist.key = "KeyX" ->
                             IF hist.idx = nghosts - 1 THEN nghosts - 1
                                                       ELSE hist.idx + 1
                        [] OTHER -> hist.idx

\* X was pressed on the last record of the longest list and left it there.
C5_Witness ==
    /\ nghosts = MaxGhosts
    /\ lpc = "unlock"
    /\ hist.key = "KeyX"
    /\ hist.idx = nghosts - 1
    /\ index = nghosts - 1

\* C6: the callback changes the stopwatch only while it holds the write
\* lock, and while the render loop reads the stopwatch no callback is under
\* way: what it reads is the stopwatch as the last completed callback left it.
C6_LockSerializesTimer ==
    /\ InCallback => lock = "write"
    /\ mpc \in {"elapsed1", "elapsed2", "tip"} =>
          /\ lock = "read"
          /\ ~InCallback
          /\ StopWatchState = hist.committed

\* The render loop reads a running stopwatch that a completed start() left.
C6_Witness ==
    /\ mpc = "elapsed2"
    /\ lock = "read"
    /\ hist.committed.start
    /\ Elapsed > 0
    /\ lpc = "idle"

\* C7: once a startup call has failed the main thread has ended, and the
\* key-listener thread has not been spawned.
C7_StartupFailureTerminates ==
    hist.failed # "none" => (mpc \in {"error", "panicked"} /\ lpc = "unspawned")

\* C8: when no callback is under way, the flag is clear and the render loop
\* is outside the block that rebuilds the ghost text, the text shows the
\* record at the index (in such a state no further frame changes the text, so
\* the record the index names would never be shown).
C8_ShownGhostFollowsIndex ==
    (/\ nghosts >= 1
     /\ lpc \in {"idle", "dead"}
     /\ ~ghost_information_should_update
     /\ mpc \notin {"lookup", "format", "flag_clear"})
        => text_ghost.rec = index

\* C9: the number printed in the ghost name line is the index of the record
\* whose name, id and speed the line prints.
C9_GhostLineSelfConsistent ==
    text_ghost.num = text_ghost.rec

\* C10: the text the frame sets is the mm:ss of one elapsed value e that the
\* stopwatch had while the frame read it.
C10_TimerTextOfOneValue ==
    mpc = "tip" =>
        \E e \in hist.lo..hist.hi :
            text_timer = timer_string(timer_minutes(e), e)

\* What a caller of the stopwatch sees, a call taking effect where it reads
\* the clock: a start() that has set the flag and not yet taken its instant
\* still shows the accumulated duration of a stopped stopwatch; a stop() that
\* has cleared the flag and not yet added still shows a running one.
Running ==
    CASE lpc = "start_instant" -> FALSE
      [] lpc = "stop_add" -> TRUE
      [] OTHER -> sw_start

Shown ==
    CASE lpc = "start_instant" -> sw_elapsed
      [] lpc = "stop_add" -> sw_elapsed + instant_elapsed(sw_instant, now)
      [] OTHER -> Elapsed

\* The step in which a reset() takes effect.
ResetTakesEffect == lpc = "reset" /\ lpc' = "reset_instant"

\* C11: in every step elapsed() either is set to zero by a reset() that
\* found the stopwatch stopped, or stays the same while the stopwatch is
\* stopped, or grows by exactly the ticks of the clock while it is running;
\* so it never decreases but by such a reset().
C11_ElapsedMonotone ==
    [][IF ResetTakesEffect
         THEN ~Running /\ Shown' = 0
         ELSE Shown' = Shown + (IF Running THEN now' - now ELSE 0)]_vars

\* The stopwatch runs again on top of a measured interval, after the clock
\* went on while it was stopped.
C11_Witness ==
    /\ hist.pat = "started"
    /\ hist.acc > 0
    /\ hist.delta > 0
    /\ sw_start
    /\ lpc = "idle"
    /\ Elapsed = hist.acc + hist.delta
    /\ now > Elapsed

\* C12: every step taken while a start() that found the stopwatch running,
\* or a stop() that found it stopped, is being handled leaves the running
\* flag, the accumulated duration and the reference instant as they were; so
\* key 1 or key 2 pressed again gives the elapsed() of pressing it once.
C12_StartStopIdempotent ==
    [][(\/ /\ lpc \in {"start", "start_instant"} \/ hist.key = "Num1"
           /\ hist.committed.start
        \/ /\ lpc \in {"stop", "stop_add"} \/ hist.key = "Num2"
           /\ ~hist.committed.start)
          => swvars' = swvars]_vars

\* The callback of key 1 has run to its end on a stopwatch that was running
\* on top of an interval measured and stopped before.
C12_Witness ==
    /\ hist.key = "Num1"
    /\ lpc = "unlock"
    /\ hist.committed.start
    /\ hist.pat = "started"
    /\ hist.acc > 0
    /\ hist.delta > 0
    /\ Elapsed = hist.acc + hist.delta

\* C13: with an empty ghost list the index stays 0, the callback of X does
\* not panic on ghosts.len() - 1, and the main thread does not panic on
\* ghosts[index] (the only panic of main left is that of a missing font).
C13_EmptyListIsSafe ==
    nghosts = 0 =>
        /\ index = 0
        /\ lpc # "panicked"
        /\ lock # "poisoned"
        /\ mpc = "panicked" => hist.failed = "font"

====
